---- MODULE Spec2Model ----
(***************************************************************************)
(* Model of package dotenv (dsh2dsh/expx-dotenv): the root-bounded upward  *)
(* directory walk of Lookup (lookup.go) and the Loader facade (dotenv.go). *)
(*                                                                         *)
(* Strings are sequences of tokens, so that concatenation, filepath.Join   *)
(* and filepath.Dir are computed and not assumed: "" is <<>>, "/" is       *)
(* <<"/">>, "/a/b" is <<"/","a","/","b">>, ".env.local" is                 *)
(* <<".env",".","local">>.  An error value is the sequence of its frames,   *)
(* outermost first: each wrapping context with the values formatted into   *)
(* its message, then the cause; the nil error is <<>>.                     *)
(***************************************************************************)
EXTENDS Integers, Sequences, FiniteSets, TLC

VARIABLES
    kind,         \* "Lookup": a bare NewLookup(); "Loader": New()
    cwd,          \* the working directory of the process
    lookupDepth,  \* Lookup.lookupDepth
    rootCb,       \* Lookup.rootCb: "nil" or "fn"
    rootDir,      \* Lookup.rootDir
    rootFiles,    \* Lookup.rootFiles
    err,          \* Lookup.err
    envSuffix,    \* Loader.envSuffix
    pc,           \* position of the one thread of control
    files,        \* the candidate list as the caller passed it
    buf,          \* backing array shared by files and foundFiles
    nFound,       \* len(foundFiles)
    curDir,       \* lookupDir: curDir
    depth,        \* lookupDir: depth
    idx,          \* index of the range loop in progress
    absDir,       \* nextParentDir: curDir after resolving ""
    stopHere,     \* nextParentDir: what stopByRootCb returned last
    foundAny,     \* the foundAny lookupDir returned
    foundDir,     \* the dir lookupDir returned
    ret,          \* what Lookup returned: [nil, list, err]
    loadErr,      \* what Load returned
    applied,      \* the list handed to godotenv.Load
    callbacks,    \* len(callbacks): how many post-load callbacks Load was given
    cbRun,        \* the post-load callbacks run so far: <<index, outcome>>
    environ,      \* the process environment: key -> [v, ok] as os.LookupEnv
    environ0,     \* the process environment as it was when Load was called
    content,      \* file handed to godotenv.Load -> the keys it defines
    fs,           \* directory -> the names found to exist in it
    known,        \* the <<directory, name>> a status check has answered for
    visited,      \* history: directories the walk has entered
    candProbes,   \* history: <<dir, name>> probed by the search pass
    markerProbes, \* history: <<dir, name>> probed as root markers
    reProbes,     \* history: <<dir, name>> probed by the collecting pass
    statCalls,    \* history: paths handed to stat
    cbCalls,      \* history: <<path, outcome>> of root callback calls
    stopEvals,    \* history: stop conditions evaluated, <<kind, dir>>
    fault,        \* history: failures injected by the environment
    gone,         \* history: <<dir, name>> the search pass found and the
                  \* collecting pass found no more
    lastCall      \* the last call made on the object since the last Lookup or
                  \* Load: a setter, or FileExistsInDir with what it did

config == <<kind, cwd, lookupDepth, rootCb, rootDir, rootFiles, err, envSuffix>>
walk == <<files, buf, nFound, curDir, depth, idx, absDir, stopHere, foundAny,
         foundDir, ret>>
load == <<loadErr, applied, callbacks, cbRun, environ, environ0, content>>
hist == <<fs, known, visited, candProbes, markerProbes, reProbes, statCalls, cbCalls,
          stopEvals, fault, gone>>
vars == <<config, pc, walk, load, hist, lastCall>>

----------------------------------------------------------------------------
\* Bounds of the model.

\* the deepest working directory has this many components
MaxCwdDepth == 2
\* depth limits -1 .. MaxDepthLimit are configured
MaxDepthLimit == 2
\* at most this many post-load callbacks are given to Load
MaxCallbacks == 2

----------------------------------------------------------------------------
\* Strings and paths.

\* string(filepath.Separator)
Separator == <<"/">>

IsAbs(p) == Len(p) > 0 /\ p[1] = "/"

SepIdx(p) == {i \in 1..Len(p) : p[i] = "/"}

LastSep(p) == CHOOSE i \in SepIdx(p) : \A j \in SepIdx(p) : j <= i

\* filepath.Dir: all but the last element; "/" for a path in the root and for
\* the root itself, "." for a path without a separator.
Dir(p) ==
    IF SepIdx(p) = {} THEN <<".">>
    ELSE IF LastSep(p) = 1 THEN Separator
    ELSE SubSeq(p, 1, LastSep(p) - 1)

\* filepath.Base: the last element.
Base(p) ==
    IF SepIdx(p) = {} THEN p
    ELSE IF Len(p) = 1 THEN Separator
    ELSE SubSeq(p, LastSep(p) + 1, Len(p))

\* filepath.Join of two elements: empty elements are ignored.
Join(dir, name) ==
    IF dir = <<>> THEN name
    ELSE IF name = <<>> THEN dir
    ELSE IF dir[Len(dir)] = "/" THEN dir \o name
    ELSE dir \o Separator \o name

\* number of elements below the filesystem root
Elements(p) == IF p = Separator THEN 0 ELSE Cardinality(SepIdx(p))

\* the strict ancestors of an absolute path: the filesystem root and what
\* stands before each further separator
Ancestors(p) ==
    IF p = Separator THEN {}
    ELSE {Separator} \cup {SubSeq(p, 1, i - 1) : i \in SepIdx(p) \ {1}}

Range(s) == {s[i] : i \in 1..Len(s)}

----------------------------------------------------------------------------
\* The inputs.

DirNames == <<"a", "b", "c", "d">>

RECURSIVE ChainDir(_)
\* the directory k elements below the filesystem root on the chain /a/b/...
ChainDir(k) == IF k = 0 THEN Separator ELSE Join(ChainDir(k - 1), <<DirNames[k]>>)

ChainDirs == {ChainDir(k) : k \in 0..MaxCwdDepth}

\* the working directory is the filesystem root or the deepest directory
Cwds == {ChainDir(0), ChainDir(MaxCwdDepth)}

DepthLimits == -1..MaxDepthLimit

\* arguments of WithRootDir: the filesystem root, a directory on the chain, a
\* relative path, which names a directory below the working directory
RootDirArgs == {Separator, ChainDir(1), <<"sub">>}

GoMod == <<"go.mod">>
DotGit == <<".git">>
RootFileArgs == {<<>>, <<GoMod>>, <<DotGit, GoMod>>}

DotEnv == <<".env">>
DotEnvLocal == <<".env", ".", "local">>

\* environment names: none and "test"
Suffixes == {<<>>, <<"test">>}

\* candidate lists given to a bare Lookup
FileArgs == {<<>>, <<DotEnv>>, <<DotEnvLocal, DotEnv>>}

\* what os.LookupEnv can answer: unset, set to "test", set to ""
EnvLookups == {[v |-> <<>>, ok |-> FALSE],
               [v |-> <<"test">>, ok |-> TRUE],
               [v |-> <<>>, ok |-> TRUE]}

\* arguments of a direct call of checkLookupDepth
DepthArgs == 0..MaxDepthLimit

\* arguments of a direct call of FileExistsInDir
ProbeDirs == {<<>>, Separator, ChainDir(1)}
ProbeNames == {DotEnv}

NoErr == <<>>
\* an error made by a collaborator: the operating system, a callback
Err(cause) == << <<cause, <<>>>> >>
\* fmt.Errorf(ctx, args..., e) with the verb %w for e
Wrap(ctx, args, e) == << <<ctx, args>> >> \o e
\* what errors.Is finds at the end of the chain
Cause(e) == e[Len(e)][1]

NilRet == [nil |-> TRUE, list |-> <<>>, err |-> NoErr]

\* the keys the .env files and the process environment may define
Keys == {"A"}

\* a key that is not set in the process environment
Unset == [v |-> <<>>, ok |-> FALSE]

\* a key that is set in the process environment before Load
PreSet == [v |-> <<"pre">>, ok |-> TRUE]

\* what godotenv.Load can meet when it reads the files of a list: each file
\* defines keys with values of its own, which the model writes as the file's
\* path.  No key is set and no file defines one; no key is set and every file
\* defines every key; no key is set and every file but the first defines
\* every key; every key is set and every file defines every key.
\* Load keeps the callbacks apart from the environment, and no claim speaks
\* of the environment after a godotenv.Load that failed, so a Load that is
\* given callbacks or whose godotenv.Load fails meets the second case only.
EnvCases(cbs, ok, list) ==
    {[pre |-> [k \in Keys |-> Unset], c |-> [p \in Range(list) |-> Keys]]}
    \cup
    (IF cbs > 0 \/ ~ok THEN {}
     ELSE {[pre |-> [k \in Keys |-> Unset], c |-> [p \in Range(list) |-> {}]],
           [pre |-> [k \in Keys |-> Unset],
            c |-> [p \in Range(list) |-> IF p = list[1] THEN {} ELSE Keys]],
           [pre |-> [k \in Keys |-> PreSet],
            c |-> [p \in Range(list) |-> Keys]]})

\* no setter and no FileExistsInDir has been called
NoCall == [op |-> "none", dirName |-> <<>>, fname |-> <<>>, statted |-> <<>>,
           st |-> "nil", exists |-> FALSE, err |-> NoErr,
           looked |-> [v |-> <<>>, ok |-> FALSE], was |-> <<>>,
           cur |-> 0, got |-> 0]

\* the setter op has been called
Setter(op) == [NoCall EXCEPT !.op = op]

----------------------------------------------------------------------------
\* The state after construction.

\* filepath.Abs: an absolute path is returned as is, a relative one is joined
\* to the working directory, which fails when os.Getwd fails.
Abs(path, wd, getwdOk) ==
    IF IsAbs(path) THEN [path |-> path, err |-> NoErr]
    ELSE IF ~getwdOk THEN [path |-> <<>>, err |-> Err("getwd")]
    ELSE [path |-> Join(wd, path), err |-> NoErr]

NewLookup ==
    /\ lookupDepth = 0
    /\ rootCb = "nil"
    /\ rootDir = <<>>
    /\ rootFiles = <<>>
    /\ err = NoErr

New ==
    /\ lookupDepth = 0
    /\ rootCb = "nil"
    /\ rootDir = Abs(Separator, cwd, TRUE).path
    /\ rootFiles = <<GoMod>>
    /\ err = NoErr
    /\ envSuffix = <<>>

Idle ==
    /\ pc = "config"
    /\ files = <<>>
    /\ buf = <<>>
    /\ nFound = 0
    /\ curDir = <<>>
    /\ depth = 0
    /\ idx = 0
    /\ absDir = <<>>
    /\ stopHere = FALSE
    /\ foundAny = FALSE
    /\ foundDir = <<>>
    /\ ret = NilRet
    /\ loadErr = NoErr
    /\ applied = <<>>
    /\ callbacks = 0
    /\ cbRun = <<>>
    /\ environ = [k \in Keys |-> Unset]
    /\ environ0 = [k \in Keys |-> Unset]
    /\ content = <<>>
    /\ fs = [d \in ChainDirs |-> {}]
    /\ known = {}
    /\ visited = {}
    /\ candProbes = {}
    /\ markerProbes = {}
    /\ reProbes = {}
    /\ statCalls = {}
    /\ cbCalls = {}
    /\ stopEvals = {}
    /\ fault = {}
    /\ gone = {}
    /\ lastCall = NoCall

Init ==
    /\ cwd \in Cwds
    /\ kind \in {"Lookup", "Loader"}
    /\ IF kind = "Lookup" THEN NewLookup /\ envSuffix = <<>> ELSE New
    /\ Idle

----------------------------------------------------------------------------
\* The setters.

WithDepth(n) ==
    /\ pc = "config"
    /\ lookupDepth' = n
    /\ UNCHANGED <<kind, cwd, rootCb, rootDir, rootFiles, err, envSuffix>>
    /\ UNCHANGED <<pc, walk, load, hist>>
    /\ lastCall' = Setter("WithDepth")

\* WithRootDir storing what filepath.Abs returned also when it failed
rootDirAfter_clobber(old, a) == a.path

\* WithRootDir: the root directory is replaced only when filepath.Abs
\* succeeded
rootDirAfter(old, a) == IF a.err # NoErr THEN old ELSE a.path

\* WithRootDir storing the error of filepath.Abs also when there is none
errAfter_cleared(old, path, a) ==
    IF a.err # NoErr THEN Wrap("failed absolutize", <<path>>, a.err) ELSE NoErr

\* WithRootDir: the error is recorded when filepath.Abs failed, and left as
\* it was otherwise
errAfter(old, path, a) ==
    IF a.err # NoErr THEN Wrap("failed absolutize", <<path>>, a.err) ELSE old

WithRootDir(path, getwdOk) ==
    /\ pc = "config"
    /\ LET a == Abs(path, cwd, getwdOk)
       IN  /\ rootDir' = rootDirAfter(rootDir, a)
           /\ err' = errAfter(err, path, a)
    /\ UNCHANGED <<kind, cwd, lookupDepth, rootCb, rootFiles, envSuffix>>
    /\ UNCHANGED <<pc, walk, load, hist>>
    /\ lastCall' = Setter("WithRootDir")

WithRootFiles(names) ==
    /\ pc = "config"
    /\ rootFiles' = names
    /\ UNCHANGED <<kind, cwd, lookupDepth, rootCb, rootDir, err, envSuffix>>
    /\ UNCHANGED <<pc, walk, load, hist>>
    /\ lastCall' = Setter("WithRootFiles")

WithRootCallback(fn) ==
    /\ pc = "config"
    /\ rootCb' = fn
    /\ UNCHANGED <<kind, cwd, lookupDepth, rootDir, rootFiles, err, envSuffix>>
    /\ UNCHANGED <<pc, walk, load, hist>>
    /\ lastCall' = Setter("WithRootCallback")

\* WithEnvSuffix also forgetting the depth limit
WithEnvSuffix_resetDepth(s) ==
    /\ pc = "config"
    /\ kind = "Loader"
    /\ envSuffix' = s
    /\ lookupDepth' = 0
    /\ UNCHANGED <<kind, cwd, rootCb, rootDir, rootFiles, err>>
    /\ UNCHANGED <<pc, walk, load, hist>>
    /\ lastCall' = Setter("WithEnvSuffix")

\* Loader.WithEnvSuffix
WithEnvSuffix(s) ==
    /\ pc = "config"
    /\ kind = "Loader"
    /\ envSuffix' = s
    /\ UNCHANGED <<kind, cwd, lookupDepth, rootCb, rootDir, rootFiles, err>>
    /\ UNCHANGED <<pc, walk, load, hist>>
    /\ lastCall' = Setter("WithEnvSuffix")

\* WithEnvVarName taking a variable set to "" for one that is not set
suffixAfter_nonEmpty(old, r) == IF r.ok /\ r.v # <<>> THEN r.v ELSE old

\* WithEnvVarName: the suffix is replaced when os.LookupEnv reports the
\* variable as present, whatever its value
suffixAfter(old, r) == IF r.ok THEN r.v ELSE old

\* Loader.WithEnvVarName: r is what os.LookupEnv answers for the name
WithEnvVarName(r) ==
    /\ pc = "config"
    /\ kind = "Loader"
    /\ envSuffix' = suffixAfter(envSuffix, r)
    /\ UNCHANGED <<kind, cwd, lookupDepth, rootCb, rootDir, rootFiles, err>>
    /\ UNCHANGED <<pc, walk, load, hist>>
    /\ lastCall' = [Setter("WithEnvVarName") EXCEPT !.looked = r,
                                                    !.was = envSuffix]

\* envFiles listing the plain files before the local ones
envFiles_plainFirst(suffix) ==
    IF suffix = <<>> THEN <<DotEnv, DotEnvLocal>>
    ELSE << <<".env", ".">> \o suffix,
            DotEnv,
            <<".env", ".">> \o suffix \o <<".", "local">>,
            DotEnvLocal >>

\* Loader.envFiles
envFiles(suffix) ==
    IF suffix = <<>> THEN <<DotEnvLocal, DotEnv>>
    ELSE << <<".env", ".">> \o suffix \o <<".", "local">>,
            DotEnvLocal,
            <<".env", ".">> \o suffix,
            DotEnv >>

----------------------------------------------------------------------------
\* The existence probe.

\* answers of the status check that are not decided by the directory content:
\* "none" lets the content decide, anything else is the error it returns
StatFaults == {"none", "ErrInvalid"}

\* the directory a path handed to stat lies in: a relative name lies in the
\* working directory
StatDir(path) == IF IsAbs(path) THEN Dir(path) ELSE cwd

\* what directory d can hold when name is checked in it: whether name
\* exists is open until a status check has answered for it; a status check
\* that fails for another reason reveals nothing
Contents(d, name, st) ==
    IF <<d, name>> \in known \/ st # "none" THEN {fs[d]}
    ELSE {fs[d], fs[d] \cup {name}}

\* the names that can be gone from directory d when name is checked there:
\* a status function given to a Lookup answers each call on its own, so a
\* name an earlier check found can be missing now; the Loader made by New
\* keeps os.Stat and the directories hold still during a call
Vanished(d, name, st) ==
    IF kind = "Lookup" /\ <<d, name>> \in known /\ name \in fs[d] /\ st = "none"
    THEN {{}, {name}}
    ELSE {{}}

\* Lookup.stat (os.Stat): the error it returns for path, "nil" for none
stat(path, f, st) ==
    IF st # "none" THEN st
    ELSE IF Base(path) \in f[StatDir(path)] THEN "nil"
    ELSE "ErrNotExist"

\* FileExistsInDir forgetting the directory
StatPath_bare(dirName, fname) == fname

\* the path FileExistsInDir hands to stat
StatPath(dirName, fname) ==
    IF dirName # <<>> THEN Join(dirName, fname) ELSE fname

\* FileExistsInDir never reporting a file: the exists result is lost
FileExistsInDir_never(dirName, fname, f, st) ==
    LET e == stat(StatPath(dirName, fname), f, st)
    IN  IF e # "nil" /\ e # "ErrNotExist"
        THEN [exists |-> FALSE, err |->
                Wrap("can't stat file", <<StatPath(dirName, fname)>>, Err(e))]
        ELSE [exists |-> FALSE, err |-> NoErr]

\* Lookup.FileExistsInDir
FileExistsInDir(dirName, fname, f, st) ==
    LET e == stat(StatPath(dirName, fname), f, st)
    IN  IF e = "nil" THEN [exists |-> TRUE, err |-> NoErr]
        ELSE IF e # "ErrNotExist"
             THEN [exists |-> FALSE, err |->
                Wrap("can't stat file", <<StatPath(dirName, fname)>>, Err(e))]
        ELSE [exists |-> FALSE, err |-> NoErr]

\* what one status check leaves behind: whether the path exists is known
\* from now on, the path is recorded, a failure is recorded
Probed(dirName, fname, f, st) ==
    /\ fs' = f
    /\ known' = IF st # "none" THEN known
                ELSE known \cup {<<StatDir(StatPath(dirName, fname)),
                                   Base(StatPath(dirName, fname))>>}
    /\ statCalls' = statCalls \cup {StatPath(dirName, fname)}
    /\ fault' = IF st # "none" THEN fault \cup {"stat"} ELSE fault

\* FileExistsInDir is called by the user of the object, as a root callback
\* may do: one status check, whose answer is drawn here and not kept
CallFileExistsInDir(dirName, fname) ==
    /\ pc = "config"
    /\ \E st \in StatFaults : \E c \in SUBSET {fname} :
         LET path == StatPath(dirName, fname)
             f == [fs EXCEPT ![StatDir(path)] = c]
             r == FileExistsInDir(dirName, fname, f, st)
         IN  lastCall' = [NoCall EXCEPT
                          !.op = "FileExistsInDir",
                          !.dirName = dirName,
                          !.fname = fname,
                          !.statted = <<path>>,
                          !.st = stat(path, f, st),
                          !.exists = r.exists,
                          !.err = r.err]
    /\ UNCHANGED <<config, pc, walk, load, hist>>

----------------------------------------------------------------------------
\* Lookup.Lookup and Lookup.lookupDir.

\* Lookup returns to its caller: to Load for a Loader
Return(list, isNil, e) ==
    /\ ret' = [nil |-> isNil, list |-> list, err |-> e]
    /\ pc' = IF kind = "Loader" THEN "load" ELSE "done"

\* the first statement of Lookup, then the first of lookupDir
Enter(fl) ==
    /\ files' = fl
    /\ buf' = fl
    /\ IF err # NoErr
       THEN /\ Return(<<>>, TRUE, err)
            /\ UNCHANGED <<curDir, depth, idx, visited>>
       ELSE /\ curDir' = <<>>
            /\ depth' = 0
            /\ idx' = 1
            /\ visited' = {cwd}
            /\ pc' = "search"
            /\ UNCHANGED ret
    /\ lastCall' = NoCall
    /\ UNCHANGED <<nFound, absDir, stopHere, foundAny, foundDir>>
    /\ UNCHANGED <<fs, known, candProbes, markerProbes, reProbes, statCalls,
                   cbCalls, stopEvals, fault, gone>>

\* a bare Lookup is called with a candidate list
CallLookup(fl) ==
    /\ pc = "config"
    /\ kind = "Lookup"
    /\ Enter(fl)
    /\ UNCHANGED <<config, load>>

\* Loader.Load is called
CallLoad ==
    /\ pc = "config"
    /\ kind = "Loader"
    /\ Enter(envFiles(envSuffix))
    /\ UNCHANGED <<config, load>>

\* the directory the walk is in
Here == IF curDir = <<>> THEN cwd ELSE curDir

\* lookupDir: one candidate is probed in curDir
SearchProbe ==
    /\ pc = "search"
    /\ idx <= Len(buf)
    /\ \E st \in StatFaults : \E c \in Contents(Here, buf[idx], st) :
         LET f == [fs EXCEPT ![Here] = c]
             r == FileExistsInDir(curDir, buf[idx], f, st)
         IN  /\ Probed(curDir, buf[idx], f, st)
             /\ candProbes' = candProbes \cup {<<Here, buf[idx]>>}
             /\ IF r.err # NoErr
                THEN /\ Return(<<>>, TRUE,
                               Wrap("got error looking for", <<buf>>, r.err))
                     /\ UNCHANGED <<idx, foundAny, foundDir, nFound>>
                ELSE IF r.exists
                THEN /\ foundAny' = TRUE
                     /\ foundDir' = curDir
                     /\ idx' = 1
                     /\ nFound' = 0
                     /\ pc' = "collect"
                     /\ UNCHANGED ret
                ELSE /\ idx' = idx + 1
                     /\ UNCHANGED <<pc, ret, foundAny, foundDir, nFound>>
    /\ UNCHANGED <<config, load, files, buf, curDir, depth, absDir, stopHere>>
    /\ UNCHANGED <<visited, markerProbes, reProbes, cbCalls, stopEvals, gone>>
    /\ UNCHANGED lastCall

\* checkLookupDepth comparing before it counts: one directory too many
checkLookupDepth_late(limit, curDepth) ==
    IF limit > 0
    THEN IF curDepth = limit THEN -1 ELSE curDepth + 1
    ELSE curDepth

\* checkLookupDepth taking a negative limit for a configured one
checkLookupDepth_nonZero(limit, curDepth) ==
    IF limit # 0
    THEN IF curDepth + 1 = limit THEN -1 ELSE curDepth + 1
    ELSE curDepth

\* Lookup.checkLookupDepth
checkLookupDepth(limit, curDepth) ==
    IF limit > 0
    THEN IF curDepth + 1 = limit THEN -1 ELSE curDepth + 1
    ELSE curDepth

\* checkLookupDepth is called apart from the walk, as its test does
CallCheckLookupDepth(curDepth) ==
    /\ pc = "config"
    /\ kind = "Lookup"
    /\ lastCall' = [NoCall EXCEPT
                       !.op = "checkLookupDepth",
                       !.cur = curDepth,
                       !.got = checkLookupDepth(lookupDepth, curDepth)]
    /\ UNCHANGED <<config, pc, walk, load, hist>>

\* lookupDir checking the depth at the top of its loop, before the candidates
SearchMiss_first ==
    /\ pc = "search"
    /\ idx = 1
    /\ depth' = checkLookupDepth(lookupDepth, depth)
    /\ stopEvals' = stopEvals \cup {<<"depth", Here>>}
    /\ IF depth' < 0
       THEN Return(<<>>, TRUE, NoErr) /\ UNCHANGED idx
       ELSE idx' = Len(buf) + 1 /\ pc' = "getwd" /\ UNCHANGED ret
    /\ UNCHANGED <<config, load, files, buf, nFound, curDir, absDir, stopHere,
                   foundAny, foundDir>>
    /\ UNCHANGED <<fs, known, visited, candProbes, markerProbes, reProbes,
                   statCalls, cbCalls, fault, gone>>
    /\ UNCHANGED lastCall

\* lookupDir leaving the candidates after the first that is missing
SearchMiss_early ==
    /\ pc = "search"
    /\ idx > 1
    /\ depth' = checkLookupDepth(lookupDepth, depth)
    /\ stopEvals' = stopEvals \cup {<<"depth", Here>>}
    /\ IF depth' < 0
       THEN Return(<<>>, TRUE, NoErr)
       ELSE pc' = "getwd" /\ UNCHANGED ret
    /\ UNCHANGED <<config, load, files, buf, nFound, curDir, idx, absDir, stopHere,
                   foundAny, foundDir>>
    /\ UNCHANGED <<fs, known, visited, candProbes, markerProbes, reProbes,
                   statCalls, cbCalls, fault, gone>>
    /\ UNCHANGED lastCall

\* lookupDir: no candidate exists in curDir, the depth is checked
SearchMiss ==
    /\ pc = "search"
    /\ idx > Len(buf)
    /\ depth' = checkLookupDepth(lookupDepth, depth)
    /\ stopEvals' = stopEvals \cup {<<"depth", Here>>}
    /\ IF depth' < 0
       THEN Return(<<>>, TRUE, NoErr)
       ELSE pc' = "getwd" /\ UNCHANGED ret
    /\ UNCHANGED <<config, load, files, buf, nFound, curDir, idx, absDir, stopHere,
                   foundAny, foundDir>>
    /\ UNCHANGED <<fs, known, visited, candProbes, markerProbes, reProbes,
                   statCalls, cbCalls, fault, gone>>
    /\ UNCHANGED lastCall

\* the error lookupDir and Lookup wrap around a failure of nextParentDir
ParentErr(e) ==
    Wrap("got error looking for", <<buf>>,
         Wrap("next parent dir of", <<curDir>>, e))

\* nextParentDir: the empty curDir is resolved by os.Getwd
ResolveCurDir ==
    /\ pc = "getwd"
    /\ \E ok \in BOOLEAN :
         IF curDir # <<>>
         THEN /\ absDir' = curDir
              /\ pc' = "callback"
              /\ UNCHANGED <<ret, fault, stopEvals>>
         ELSE /\ stopEvals' = stopEvals \cup {<<"getwd", cwd>>}
              /\ IF ok
                 THEN /\ absDir' = cwd
                      /\ pc' = "callback"
                      /\ UNCHANGED <<ret, fault>>
                 ELSE /\ Return(<<>>, TRUE,
                                ParentErr(Wrap("can't get current dir", <<>>,
                                               Err("getwd"))))
                      /\ fault' = fault \cup {"getwd"}
                      /\ UNCHANGED absDir
    /\ UNCHANGED <<config, load, files, buf, nFound, curDir, depth, idx, stopHere,
                   foundAny, foundDir>>
    /\ UNCHANGED <<fs, known, visited, candProbes, markerProbes, reProbes,
                   statCalls, cbCalls, gone>>
    /\ UNCHANGED lastCall

\* what a root callback can return
CbOutcomes == {"stop", "continue", "fail"}

\* stopByRootCb never calling the callback
calledWith_never(cb, path) == {}

\* Lookup.stopByRootCb: the paths the callback is called with, none when no
\* callback is configured
calledWith(cb, path) == IF cb = "nil" THEN {} ELSE {path}

\* stopByRootCb taking an error of the callback for 'go on'
stopByRootCb_forgiving(cb, path, out) ==
    IF cb = "nil" THEN [stopHere |-> FALSE, err |-> NoErr]
    ELSE [stopHere |-> out = "stop", err |-> NoErr]

\* stopByRootCb losing the answer of the callback
stopByRootCb_deaf(cb, path, out) ==
    IF cb = "nil" THEN [stopHere |-> FALSE, err |-> NoErr]
    ELSE IF out = "fail"
         THEN [stopHere |-> FALSE,
               err |-> Wrap("check dir using root callback", <<path>>,
                            Err("callback"))]
    ELSE [stopHere |-> FALSE, err |-> NoErr]

\* Lookup.stopByRootCb: no callback configured is (false, nil)
stopByRootCb(cb, path, out) ==
    IF cb = "nil" THEN [stopHere |-> FALSE, err |-> NoErr]
    ELSE IF out = "fail"
         THEN [stopHere |-> FALSE,
               err |-> Wrap("check dir using root callback", <<path>>,
                            Err("callback"))]
    ELSE [stopHere |-> out = "stop", err |-> NoErr]

\* nextParentDir without the comparison with rootDir
stopAtDir_noRoot(stop, dir, root) == stop

\* nextParentDir not heeding the callback
stopAtDir_noCb(stop, dir, root) == dir = root

\* nextParentDir stops at dir when the callback said so or dir is rootDir
stopAtDir(stop, dir, root) == stop \/ dir = root

\* nextParentDir: the callback, then the comparison with rootDir
StopChecks ==
    /\ pc = "callback"
    /\ \E out \in CbOutcomes :
         LET r == stopByRootCb(rootCb, absDir, out)
         IN  /\ stopHere' = r.stopHere
             /\ cbCalls' = cbCalls
                    \cup {<<p, out>> : p \in calledWith(rootCb, absDir)}
             /\ stopEvals' = stopEvals
                    \cup (IF rootCb = "nil" THEN {} ELSE {<<"callback", absDir>>})
                    \cup (IF r.err = NoErr /\ ~r.stopHere
                          THEN {<<"rootDir", absDir>>} ELSE {})
             /\ fault' = IF r.err # NoErr THEN fault \cup {"callback"} ELSE fault
             /\ IF r.err # NoErr
                THEN Return(<<>>, TRUE, ParentErr(r.err)) /\ UNCHANGED idx
                ELSE IF stopAtDir(r.stopHere, absDir, rootDir)
                THEN Return(<<>>, TRUE, NoErr) /\ UNCHANGED idx
                ELSE pc' = "markers" /\ idx' = 1 /\ UNCHANGED ret
    /\ UNCHANGED <<config, load, files, buf, nFound, curDir, depth, absDir,
                   foundAny, foundDir>>
    /\ UNCHANGED <<fs, known, visited, candProbes, markerProbes, reProbes, statCalls,
                   gone>>
    /\ UNCHANGED lastCall

\* nextParentDir: one root marker is probed
MarkerProbe ==
    /\ pc = "markers"
    /\ idx <= Len(rootFiles)
    /\ \E st \in StatFaults : \E c \in Contents(absDir, rootFiles[idx], st) :
         LET f == [fs EXCEPT ![absDir] = c]
             r == FileExistsInDir(absDir, rootFiles[idx], f, st)
         IN  /\ Probed(absDir, rootFiles[idx], f, st)
             /\ markerProbes' = markerProbes \cup {<<absDir, rootFiles[idx]>>}
             /\ stopEvals' = stopEvals \cup {<<"marker", absDir>>}
             /\ IF r.err # NoErr
                THEN /\ Return(<<>>, TRUE,
                               ParentErr(Wrap("check existence of file",
                                              <<rootFiles[idx], absDir>>, r.err)))
                     /\ UNCHANGED idx
                ELSE IF r.exists
                THEN Return(<<>>, TRUE, NoErr) /\ UNCHANGED idx
                ELSE idx' = idx + 1 /\ UNCHANGED <<pc, ret>>
    /\ UNCHANGED <<config, load, files, buf, nFound, curDir, depth, absDir,
                   stopHere, foundAny, foundDir>>
    /\ UNCHANGED <<visited, candProbes, reProbes, cbCalls, gone>>
    /\ UNCHANGED lastCall

\* nextParentDir going up two directories at once
parentOf_skip(dir) == Dir(Dir(dir))

\* what nextParentDir returns when nothing stops the walk at dir
parentOf(dir) == Dir(dir)

\* nextParentDir returns the parent of curDir, lookupDir goes there
Ascend ==
    /\ pc = "markers"
    /\ idx > Len(rootFiles)
    /\ LET newDir == parentOf(absDir)
       IN  IF newDir = <<>>
           THEN /\ Return(<<>>, TRUE, NoErr)
                /\ UNCHANGED <<curDir, idx, visited>>
           ELSE /\ curDir' = newDir
                /\ idx' = 1
                /\ visited' = visited \cup {newDir}
                /\ pc' = "search"
                /\ UNCHANGED ret
    /\ UNCHANGED <<config, load, files, buf, nFound, depth, absDir, stopHere,
                   foundAny, foundDir>>
    /\ UNCHANGED <<fs, known, candProbes, markerProbes, reProbes, statCalls,
                   cbCalls, stopEvals, fault, gone>>
    /\ UNCHANGED lastCall

\* Lookup returning the candidate name as it was given
foundName_bare(dir, name) == name

\* the name Lookup returns for a candidate that exists in dir
foundName(dir, name) == IF dir # <<>> THEN Join(dir, name) ELSE name

\* foundFiles filled from the end of the backing array
appendFound_back(b, n, name) == [b EXCEPT ![Len(b) - n] = name]

\* foundFiles = append(foundFiles, name), foundFiles being files[:0]: the
\* backing array b of files is written behind the n names found so far
appendFound(b, n, name) == [b EXCEPT ![n + 1] = name]

\* Lookup: one candidate is probed again in the directory lookupDir returned
\* and appended to foundFiles, which overwrites files
Collect ==
    /\ pc = "collect"
    /\ idx <= Len(files)
    /\ LET name == buf[idx]
           dir == IF foundDir = <<>> THEN cwd ELSE foundDir
       IN  \E st \in StatFaults : \E c \in Contents(dir, name, st) :
           \E away \in Vanished(dir, name, st) :
             LET f == [fs EXCEPT ![dir] = c]
                 now == [f EXCEPT ![dir] = f[dir] \ away]
                 r == FileExistsInDir(foundDir, name, now, st)
             IN  /\ Probed(foundDir, name, f, st)
                 /\ reProbes' = reProbes \cup {<<dir, name>>}
                 /\ gone' = gone \cup {<<dir, n>> : n \in away}
                 /\ IF r.err # NoErr
                    THEN /\ Return(<<>>, TRUE, r.err)
                         /\ UNCHANGED <<buf, nFound, idx>>
                    ELSE /\ idx' = idx + 1
                         /\ UNCHANGED <<pc, ret>>
                         /\ IF r.exists
                            THEN /\ buf' = appendFound(buf, nFound,
                                                       foundName(foundDir, name))
                                 /\ nFound' = nFound + 1
                            ELSE UNCHANGED <<buf, nFound>>
    /\ UNCHANGED <<config, load, files, curDir, depth, absDir, stopHere,
                   foundAny, foundDir>>
    /\ UNCHANGED <<visited, candProbes, markerProbes, cbCalls, stopEvals>>
    /\ UNCHANGED lastCall

\* Lookup returns foundFiles
Found ==
    /\ pc = "collect"
    /\ idx > Len(files)
    /\ Return(SubSeq(buf, 1, nFound), FALSE, NoErr)
    /\ UNCHANGED <<config, load, files, buf, nFound, curDir, depth, idx, absDir,
                   stopHere, foundAny, foundDir, hist>>
    /\ UNCHANGED lastCall

----------------------------------------------------------------------------
\* Loader.Load after Lookup has returned.

\* how many post-load callbacks Load is given
CallbackArgs == {0, MaxCallbacks}

\* Load taking an empty result of Lookup for a failure
loadFailure_notFound(e, envs, ok) ==
    IF e # NoErr THEN e
    ELSE IF Len(envs) = 0 THEN Err("not found")
    ELSE IF ~ok THEN Wrap("can't load", <<envs>>, Err("godotenv"))
    ELSE NoErr

\* Load not noticing that godotenv.Load failed
loadFailure_swallow(e, envs, ok) == e

\* Load: the error that ends it before any post-load callback: the error of
\* Lookup as it is, the error of godotenv.Load wrapped with the files
loadFailure(e, envs, ok) ==
    IF e # NoErr THEN e
    ELSE IF Len(envs) > 0 /\ ~ok
         THEN Wrap("can't load", <<envs>>, Err("godotenv"))
    ELSE NoErr

\* godotenv.Load reading one file: a key of the file is set to the file's
\* value unless the process environment has the key already
loadFile(env, file, keys) ==
    [k \in Keys |-> IF ~env[k].ok /\ k \in keys
                    THEN [v |-> file, ok |-> TRUE]
                    ELSE env[k]]

RECURSIVE godotenvLoad(_, _, _)
\* godotenv.Load(list...): the files are read in the order of the list
godotenvLoad(env, list, c) ==
    IF list = <<>> THEN env
    ELSE godotenvLoad(loadFile(env, Head(list), c[Head(list)]), Tail(list), c)

\* Load handing the files found to godotenv.Load last first
loadOrder_reversed(list) == [i \in 1..Len(list) |-> list[Len(list) + 1 - i]]

\* Load: godotenv.Load(envs...) is given the list as Lookup returned it
loadOrder(list) == list

\* Load: the error of Lookup is returned, the files found are handed to
\* godotenv.Load, whose failure is returned wrapped.  The callbacks Load was
\* given are its argument cbs; the model draws them where Load first reads them.
\* The process environment and what the files define are read by
\* godotenv.Load first and are drawn there; godotenv.Load that fails has read
\* the files before the one it failed on.
Apply(cbs, ok) ==
    /\ pc = "load"
    /\ IF ret.err = NoErr /\ Len(ret.list) > 0
       THEN /\ applied' = loadOrder(ret.list)
            /\ fault' = IF ok THEN fault ELSE fault \cup {"godotenv"}
            /\ \E e \in EnvCases(cbs, ok, ret.list) :
                 \E n \in (IF ok THEN {Len(ret.list)} ELSE 0..(Len(ret.list) - 1)) :
                    /\ environ0' = e.pre
                    /\ content' = e.c
                    /\ environ' = godotenvLoad(e.pre, SubSeq(applied', 1, n), e.c)
       ELSE UNCHANGED <<applied, fault, environ, environ0, content>>
    /\ LET e == loadFailure(ret.err, ret.list, ok)
       IN  IF e # NoErr
           THEN /\ loadErr' = e
                /\ pc' = "done"
                /\ UNCHANGED callbacks
           ELSE /\ pc' = "postcb"
                /\ callbacks' = cbs
                /\ UNCHANGED loadErr
    /\ UNCHANGED <<config, walk, cbRun>>
    /\ UNCHANGED <<fs, known, visited, candProbes, markerProbes, reProbes,
                   statCalls, cbCalls, stopEvals, gone>>
    /\ UNCHANGED lastCall

\* the error the i-th post-load callback returns when it fails
cbErr(i) == << <<"post-load callback", <<i>>>> >>

\* Load going on to the next callback after one has failed
afterCallback_goOn(out) == "postcb"

\* Load: an error of a callback is returned at once, otherwise the range
\* loop goes on
afterCallback(out) == IF out = "fail" THEN "done" ELSE "postcb"

\* Load: the next post-load callback runs; its error ends Load
PostCallback(out) ==
    /\ pc = "postcb"
    /\ Len(cbRun) < callbacks
    /\ LET i == Len(cbRun) + 1
       IN  /\ cbRun' = Append(cbRun, <<i, out>>)
           /\ IF out = "fail"
              THEN /\ loadErr' = cbErr(i)
                   /\ fault' = fault \cup {"postcb"}
              ELSE UNCHANGED <<loadErr, fault>>
    /\ pc' = afterCallback(out)
    /\ UNCHANGED <<config, walk, applied, callbacks, environ, environ0, content>>
    /\ UNCHANGED <<fs, known, visited, candProbes, markerProbes, reProbes,
                   statCalls, cbCalls, stopEvals, gone>>
    /\ UNCHANGED lastCall

\* Load: every callback has run, Load returns nil
Loaded ==
    /\ pc = "postcb"
    /\ Len(cbRun) = callbacks
    /\ loadErr' = NoErr
    /\ pc' = "done"
    /\ UNCHANGED <<config, walk, applied, callbacks, cbRun, hist>>
    /\ UNCHANGED <<environ, environ0, content>>
    /\ UNCHANGED lastCall

\* the object is configured and used again
Again ==
    /\ pc = "done"
    /\ pc' = "config"
    /\ files' = <<>>
    /\ buf' = <<>>
    /\ nFound' = 0
    /\ curDir' = <<>>
    /\ depth' = 0
    /\ idx' = 0
    /\ absDir' = <<>>
    /\ stopHere' = FALSE
    /\ foundAny' = FALSE
    /\ foundDir' = <<>>
    /\ ret' = NilRet
    /\ loadErr' = NoErr
    /\ applied' = <<>>
    /\ callbacks' = 0
    /\ cbRun' = <<>>
    /\ environ' = [k \in Keys |-> Unset]
    /\ environ0' = [k \in Keys |-> Unset]
    /\ content' = <<>>
    /\ fs' = [d \in ChainDirs |-> {}]
    /\ known' = {}
    /\ visited' = {}
    /\ candProbes' = {}
    /\ markerProbes' = {}
    /\ reProbes' = {}
    /\ statCalls' = {}
    /\ cbCalls' = {}
    /\ stopEvals' = {}
    /\ fault' = {}
    /\ gone' = {}
    /\ lastCall' = NoCall
    /\ UNCHANGED config

----------------------------------------------------------------------------
\* The specification.

Configure ==
    \/ \E n \in DepthLimits : WithDepth(n)
    \/ \E p \in RootDirArgs, ok \in BOOLEAN : WithRootDir(p, ok)
    \/ \E names \in RootFileArgs : WithRootFiles(names)
    \/ \E fn \in {"nil", "fn"} : WithRootCallback(fn)
    \/ \E s \in Suffixes : WithEnvSuffix(s)
    \/ \E r \in EnvLookups : WithEnvVarName(r)

Call ==
    \/ \E fl \in FileArgs : CallLookup(fl)
    \/ CallLoad

\* the steps of one call, from its first statement to its return
Run ==
    \/ SearchProbe
    \/ SearchMiss
    \/ ResolveCurDir
    \/ StopChecks
    \/ MarkerProbe
    \/ Ascend
    \/ Collect
    \/ Found
    \/ \E cbs \in CallbackArgs, ok \in BOOLEAN : Apply(cbs, ok)
    \/ \E out \in {"ok", "fail"} : PostCallback(out)
    \/ Loaded

\* FileExistsInDir is public: it is called apart from Lookup too
Ask == \E d \in ProbeDirs, n \in ProbeNames : CallFileExistsInDir(d, n)

\* checkLookupDepth with a current depth of the caller's choice
Check == \E c \in DepthArgs : CallCheckLookupDepth(c)

Next == Configure \/ Ask \/ Check \/ Call \/ Run \/ Again

Spec == Init /\ [][Next]_vars

\* a call that has begun runs on until it returns: the program has one
\* thread and no step of a call waits for anything
FairSpec == Spec /\ WF_vars(Run)

Done == pc = "done"

----------------------------------------------------------------------------
\* What the claims speak of.

\* Lookup has returned to its caller
Returned == pc \in {"load", "postcb", "done"}

\* the walk counts the starting directory as level 1, its parent as level 2
Level(d) == Elements(cwd) - Elements(d) + 1

\* the directories from the starting directory up to the filesystem root
Upward == {cwd} \cup Ancestors(cwd)

\* the directories whose candidates or markers were probed
ProbedDirs == {p[1] : p \in candProbes \cup markerProbes \cup reProbes}

\* directory d is known to hold a candidate
HasCandidate(d) == fs[d] \cap Range(files) # {}

\* directory d is known to hold no candidate: every candidate was checked
\* there and none exists
HasNoCandidate(d) ==
    \A n \in Range(files) : <<d, n>> \in known /\ n \notin fs[d]

\* directory d is known to hold a root marker
HasMarker(d) == fs[d] \cap Range(rootFiles) # {}

\* nothing failed in the call: no deferred error is recorded, no status
\* check, callback or working-directory query failed
NoFailure == err = NoErr /\ fault \cap {"stat", "callback", "getwd"} = {}

\* the directory lookupDir found, as an absolute path
Winning == IF foundDir = <<>> THEN cwd ELSE foundDir

----------------------------------------------------------------------------
\* C1: Lookup always terminates: whatever the depth limit, the root
\* directory, the markers and the callback are, a call that has begun
\* returns.
C1_Terminates == (pc \notin {"config", "done"}) ~> (pc \in {"config", "done"})

\* C2: with a depth limit n > 0 no candidate is probed in a directory at a
\* level above n, at most n directories are probed, and a call in which
\* nothing failed and no directory of the first n levels holds a candidate
\* returns not found.
C2_DepthLimit ==
    lookupDepth > 0 =>
        /\ \A p \in candProbes : Level(p[1]) <= lookupDepth
        /\ Cardinality({p[1] : p \in candProbes}) <= lookupDepth
        /\ (/\ Returned
            /\ NoFailure
            /\ \A d \in Upward : Level(d) <= lookupDepth => ~HasCandidate(d))
           => ret = NilRet

\* C2, its case: the depth limit n >= 2 ended the walk at level n.
C2_Witness ==
    /\ Returned
    /\ lookupDepth >= 2
    /\ Len(files) > 0
    /\ ret = NilRet
    /\ \E d \in Upward : Level(d) = lookupDepth /\ <<"depth", d>> \in stopEvals
    /\ \A d \in Upward : Level(d) <= lookupDepth => HasNoCandidate(d)

\* C3: once the walk has entered the root directory, nothing above the root
\* directory is entered or probed, for candidates or for markers.
C3_RootDirBounds ==
    rootDir \in visited =>
        /\ visited \cap Ancestors(rootDir) = {}
        /\ ProbedDirs \cap Ancestors(rootDir) = {}

\* C3, its case: with no depth limit the walk went up to a root directory
\* that has ancestors, found no candidate there, and stopped by comparing.
C3_Witness ==
    /\ Returned
    /\ lookupDepth = 0
    /\ rootDir \in visited
    /\ rootDir # cwd
    /\ Ancestors(rootDir) # {}
    /\ <<"rootDir", rootDir>> \in stopEvals
    /\ ret = NilRet

\* C4: the directory lookupDir finds is the first one upward from the
\* starting directory that holds a candidate: every directory below it was
\* probed and holds none, it holds one, and nothing above it is probed.
C4_FirstDirWins ==
    foundAny =>
        /\ Winning \in Upward
        /\ HasCandidate(Winning)
        /\ \A d \in Upward : Winning \in Ancestors(d) =>
              /\ HasNoCandidate(d)
              /\ \A i \in 1..Len(files) : <<d, files[i]>> \in candProbes
        /\ ProbedDirs \cap Ancestors(Winning) = {}
        /\ visited \cap Ancestors(Winning) = {}

\* C4, its case: a candidate was found two levels up, below the filesystem
\* root.
C4_Witness ==
    /\ Returned
    /\ foundAny
    /\ Level(Winning) = 3
    /\ ~ret.nil

\* C5: in a call that passed the deferred-error check the starting directory
\* is probed for candidates first: before any stop condition is evaluated
\* and before any other directory is entered or probed, every candidate has
\* been probed there.
C5_StartDirFirst ==
    /\ (pc \notin {"config"} /\ err = NoErr /\ Len(files) > 0)
         => (pc = "search" /\ idx = 1 /\ visited = {cwd}) \/ <<cwd, files[1]>> \in candProbes
    /\ (\/ stopEvals # {}
        \/ cbCalls # {}
        \/ markerProbes # {}
        \/ visited \ {cwd} # {}
        \/ ProbedDirs \ {cwd} # {})
         => \A i \in 1..Len(files) : <<cwd, files[i]>> \in candProbes

\* C5, its case: the depth limit is 1 and has ended the walk.
C5_Witness ==
    /\ Returned
    /\ lookupDepth = 1
    /\ Len(files) > 1
    /\ <<"depth", cwd>> \in stopEvals
    /\ ret = NilRet

\* the candidate exists in the directory lookupDir found, when Lookup
\* collects the files
InWinning(name) == name \in fs[Winning] /\ <<Winning, name>> \notin gone

\* C6: when a directory was found and no probe failed, Lookup returns the
\* candidates that exist in it, each once per occurrence in the candidate
\* list and in candidate order; while the result is built over the candidate
\* list, no candidate is overwritten before it is read.
C6_FoundInOrder ==
    /\ pc = "collect" =>
         /\ nFound < idx
         /\ \A i \in idx..Len(files) : buf[i] = files[i]
    /\ (Returned /\ ~ret.nil) =>
         /\ ret.err = NoErr
         /\ [i \in 1..Len(ret.list) |-> Base(ret.list[i])]
              = SelectSeq(files, InWinning)

\* C6, its case: of four candidates the first is missing, .env.local and
\* .env both exist, and .env.local comes back before .env.
C6_Witness ==
    /\ Returned
    /\ ~ret.nil
    /\ Len(files) = 4
    /\ files[1] \notin fs[Winning]
    /\ {DotEnvLocal, DotEnv} \subseteq fs[Winning]
    /\ \E i, j \in 1..Len(ret.list) :
         i < j /\ Base(ret.list[i]) = DotEnvLocal /\ Base(ret.list[j]) = DotEnv

\* C7: the names Lookup returns are the bare candidate names when the
\* directory found is the starting directory, and otherwise absolute paths
\* made of the directory found and a candidate name: all of one directory.
C7_ReturnedNames ==
    (Returned /\ ~ret.nil) =>
        \A i \in 1..Len(ret.list) :
            IF Winning = cwd
            THEN ~IsAbs(ret.list[i]) /\ ret.list[i] \in Range(files)
            ELSE /\ IsAbs(ret.list[i])
                 /\ Dir(ret.list[i]) = Winning
                 /\ Base(ret.list[i]) \in Range(files)

\* C7, its case: two files were found in a parent directory.
C7_Witness ==
    /\ Returned
    /\ ~ret.nil
    /\ Winning # cwd
    /\ Len(ret.list) >= 2

\* C8: the candidate list of Load depends on the environment suffix alone:
\* [".env.local", ".env"] without one, [".env."+s+".local", ".env.local",
\* ".env."+s, ".env"] with suffix s; every call starts from such a list,
\* whatever an earlier call wrote over its own.
C8_EnvFiles ==
    (kind = "Loader" /\ pc # "config") =>
        /\ envSuffix = <<>> =>
             files = << <<".env", ".", "local">>, <<".env">> >>
        /\ envSuffix # <<>> =>
             files = << <<".env", ".">> \o envSuffix \o <<".", "local">>,
                        <<".env", ".", "local">>,
                        <<".env", ".">> \o envSuffix,
                        <<".env">> >>
        /\ envSuffix = <<"test">> =>
             /\ files[1] = <<".env", ".", "test", ".", "local">>
             /\ files[3] = <<".env", ".", "test">>
        /\ pc = "search" => buf = files

\* C8, its case: Load searches with the suffix "test".
C8_Witness ==
    /\ kind = "Loader"
    /\ envSuffix = <<"test">>
    /\ pc = "search"
    /\ Len(files) = 4

\* C9: in one resolution of the parent directory the callback comes first,
\* then the comparison with the root directory, then the markers, then the
\* parent: markers are probed only in a directory for which the callback
\* did not say stop and which is not the root directory, in configured
\* order and up to the first that exists, and the walk goes up only when
\* every marker has been probed and none exists.
C9_CheckOrder ==
    /\ pc = "markers" =>
         /\ ~stopHere
         /\ absDir # rootDir
         /\ rootCb = "fn" => <<absDir, "continue">> \in cbCalls
    /\ \A e \in stopEvals :
         (e[1] = "rootDir" /\ rootCb = "fn") => <<e[2], "continue">> \in cbCalls
    /\ \A p \in markerProbes :
         /\ p[1] # rootDir
         /\ <<"rootDir", p[1]>> \in stopEvals
         /\ rootCb = "fn" => <<p[1], "continue">> \in cbCalls
    /\ \A p \in markerProbes : \A k \in 1..Len(rootFiles) :
         p[2] = rootFiles[k] =>
             \A j \in 1..(k - 1) :
                 /\ <<p[1], rootFiles[j]>> \in markerProbes
                 /\ <<p[1], rootFiles[j]>> \in known
                 /\ rootFiles[j] \notin fs[p[1]]
    /\ \A d \in visited \ {cwd} :
         \E c \in visited :
             /\ Dir(c) = d
             /\ c # rootDir
             /\ rootCb = "fn" => <<c, "continue">> \in cbCalls
             /\ \A m \in Range(rootFiles) :
                  <<c, m>> \in markerProbes /\ <<c, m>> \in known /\ m \notin fs[c]

\* C9, its case: a callback is configured and let the walk go on, the
\* directory is not the root directory, the first of two markers does not
\* exist and the second is about to be probed.
C9_Witness ==
    /\ pc = "markers"
    /\ idx = 2
    /\ Len(rootFiles) = 2
    /\ rootCb = "fn"
    /\ IsAbs(rootDir)
    /\ <<absDir, rootFiles[1]>> \in markerProbes

\* C10: a directory the walk entered that holds no candidate but a root
\* marker ends the walk: nothing above it is entered or probed, no
\* directory is found, and Lookup returns no list, and no error unless a
\* status check, the callback or the working-directory query failed.
C10_MarkerStops ==
    \A d \in visited :
        (HasNoCandidate(d) /\ HasMarker(d)) =>
            /\ visited \cap Ancestors(d) = {}
            /\ ProbedDirs \cap Ancestors(d) = {}
            /\ ~foundAny
            /\ Returned =>
                 /\ ret.nil
                 /\ ret.list = <<>>
                 /\ NoFailure => ret.err = NoErr

\* C10, its case: the starting directory, which has ancestors, holds no
\* candidate but a marker; the marker was probed and the call returned not
\* found.
C10_Witness ==
    /\ Returned
    /\ cwd # Separator
    /\ Len(files) > 0
    /\ lookupDepth = 0
    /\ rootCb = "nil"
    /\ rootDir # cwd
    /\ HasNoCandidate(cwd)
    /\ HasMarker(cwd)
    /\ \E m \in fs[cwd] : <<cwd, m>> \in markerProbes
    /\ ret = NilRet

\* C11: a root callback that says stop for a visited directory ends the
\* walk there: the directory holds no candidate that was found, nothing
\* above it is entered or probed, and Lookup has returned not found without
\* error; while every answer of the callback is stop the walk does not
\* leave the starting directory.
C11_CallbackStops ==
    /\ \A c \in cbCalls :
         c[2] = "stop" =>
             /\ visited \cap Ancestors(c[1]) = {}
             /\ ProbedDirs \cap Ancestors(c[1]) = {}
             /\ ~foundAny
             /\ Returned
             /\ ret = NilRet
    /\ (rootCb = "fn" /\ \A c \in cbCalls : c[2] = "stop") =>
         /\ visited \subseteq {cwd}
         /\ ProbedDirs \subseteq {cwd}

\* C11, its case: the starting directory, which has ancestors, holds no
\* candidate, the callback said stop there and the call returned not found.
C11_Witness ==
    /\ Returned
    /\ rootCb = "fn"
    /\ cwd # Separator
    /\ Len(files) > 0
    /\ HasNoCandidate(cwd)
    /\ <<cwd, "stop">> \in cbCalls
    /\ ret = NilRet

\* the directories for which the root callback was called
CalledFor == {c[1] : c \in cbCalls}

C13_PostCallbacks ==
    /\ Len(cbRun) <= callbacks
    /\ \A k \in 1..Len(cbRun) :
         /\ cbRun[k][1] = k
         /\ k < Len(cbRun) => cbRun[k][2] = "ok"
    /\ cbRun # <<>> => (ret.err = NoErr /\ "godotenv" \notin fault)
    /\ pc = "postcb" => (cbRun = <<>> \/ cbRun[Len(cbRun)][2] = "ok")
    /\ (pc = "done" /\ kind = "Loader" /\ ret.err = NoErr
                    /\ "godotenv" \notin fault) =>
         IF cbRun # <<>> /\ cbRun[Len(cbRun)][2] = "fail"
         THEN loadErr = cbErr(Len(cbRun))
         ELSE Len(cbRun) = callbacks /\ loadErr = NoErr

\* C13, its case: of two callbacks the first failed, the second did not run
\* and Load returned the error of the first.
C13_Witness ==
    /\ pc = "done"
    /\ callbacks = 2
    /\ cbRun = << <<1, "fail">> >>
    /\ loadErr = cbErr(1)

\* C14: when Lookup returns an error Load returns that error, when
\* godotenv.Load fails Load returns its error wrapped with the list of
\* files it was applying; in both cases no post-load callback runs and the
\* call is over: nothing is tried again.
C14_FailureSkipsCallbacks ==
    kind = "Loader" =>
        /\ (pc \in {"postcb", "done"} /\ ret.err # NoErr) =>
             /\ pc = "done"
             /\ loadErr = ret.err
             /\ cbRun = <<>>
             /\ applied = <<>>
        /\ "godotenv" \in fault =>
             /\ pc = "done"
             /\ loadErr # NoErr
             /\ loadErr[1] = <<"can't load", <<applied>>>>
             /\ applied = ret.list
             /\ Cause(loadErr) = "godotenv"
             /\ cbRun = <<>>

\* C14, its case: godotenv.Load failed on two files found in a parent
\* directory.
C14_Witness ==
    /\ pc = "done"
    /\ "godotenv" \in fault
    /\ Len(applied) = 2
    /\ foundDir # <<>>
    /\ loadErr # NoErr

\* C15: when the walk ends without a winning directory Lookup returns a nil
\* list, and a nil error unless something failed; Load then does not call
\* godotenv.Load, which alone writes the process environment, runs the
\* post-load callbacks, and returns nil when none of them fails.
C15_NotFoundIsNoError ==
    /\ (Returned /\ ~foundAny) =>
         /\ ret.nil
         /\ ret.list = <<>>
         /\ NoFailure => ret.err = NoErr
    /\ (kind = "Loader" /\ pc \in {"postcb", "done"} /\ ret = NilRet) =>
         /\ applied = <<>>
         /\ "godotenv" \notin fault
         /\ pc = "done" =>
              /\ "postcb" \notin fault => (loadErr = NoErr /\ Len(cbRun) = callbacks)
              /\ "postcb" \in fault => cbRun # <<>>

\* C15, its case: the depth limit 1 ended the walk in a starting directory
\* that has ancestors, and Load ran its two callbacks and returned nil.
C15_Witness ==
    /\ pc = "done"
    /\ kind = "Loader"
    /\ lookupDepth = 1
    /\ cwd # Separator
    /\ ret = NilRet
    /\ Len(cbRun) = 2
    /\ loadErr = NoErr

\* C16: a status check that fails with an error other than 'does not
\* exist', in the search pass, at a marker or in the collecting pass, makes
\* Lookup return at once a nil list and an error that wraps the cause and
\* whose context names the candidate list that was searched.
C16_ProbeErrorNamesCandidates ==
    "stat" \in fault =>
        /\ Returned
        /\ ret.nil
        /\ ret.list = <<>>
        /\ ret.err # NoErr
        /\ Cause(ret.err) = "ErrInvalid"
        /\ ret.err[1][1] = "got error looking for"
        /\ ret.err[1][2] = <<files>>

\* C17: FileExistsInDir makes one status check, of the bare file name when
\* the directory name is empty and of the directory joined with the file
\* name otherwise; it answers (true, nil) when the check succeeds, (false,
\* nil) when it fails with 'does not exist', and (false, err) with err
\* wrapping the cause when it fails otherwise.
C17_FileExistsInDir ==
    lastCall.op = "FileExistsInDir" =>
        /\ Len(lastCall.statted) = 1
        /\ lastCall.statted[1] =
             IF lastCall.dirName = <<>> THEN lastCall.fname
             ELSE IF lastCall.dirName = Separator
                  THEN Separator \o lastCall.fname
             ELSE lastCall.dirName \o Separator \o lastCall.fname
        /\ lastCall.st = "nil" => (lastCall.exists /\ lastCall.err = NoErr)
        /\ lastCall.st = "ErrNotExist" =>
             (~lastCall.exists /\ lastCall.err = NoErr)
        /\ lastCall.st \notin {"nil", "ErrNotExist"} =>
             /\ ~lastCall.exists
             /\ lastCall.err # NoErr
             /\ Cause(lastCall.err) = lastCall.st

\* C17, its case: the status check of a file in a named directory failed
\* with another error than 'does not exist'.
C17_Witness ==
    /\ lastCall.op = "FileExistsInDir"
    /\ lastCall.dirName = ChainDir(1)
    /\ lastCall.st = "ErrInvalid"
    /\ lastCall.err # NoErr

\* C18: a WithRootDir that cannot make its path absolute records the error
\* and keeps the root directory it had (the root directory changes only to
\* an absolute path, with no error recorded in that step); a Lookup called
\* with an error recorded returns that error and a nil list, having made no
\* status check, no working-directory query and no callback call.
C18_DeferredError ==
    /\ [](err # NoErr /\ pc # "config" =>
            /\ Returned
            /\ ret = [nil |-> TRUE, list |-> <<>>, err |-> err]
            /\ visited = {}
            /\ statCalls = {}
            /\ cbCalls = {}
            /\ stopEvals = {})
    /\ [][/\ err' # err => (rootDir' = rootDir /\ err' # NoErr)
          /\ rootDir' # rootDir => (IsAbs(rootDir') /\ err' = err)]_vars

\* C18, its case: a root directory was stored, a later WithRootDir failed,
\* and Lookup returned the recorded error.
C18_Witness ==
    /\ Returned
    /\ err # NoErr
    /\ Cause(err) = "getwd"
    /\ rootDir = ChainDir(1)
    /\ ret.err = err

\* C19: the stored root directory is an absolute path in every state, from
\* construction on.
C19_RootDirAbsolute == IsAbs(rootDir)

\* C20: a setter acts on the object it is called on and changes only the
\* field it names: WithDepth the depth limit, WithRootDir the root
\* directory (or the recorded error), WithRootFiles the markers,
\* WithRootCallback the callback, WithEnvSuffix and WithEnvVarName the
\* suffix; nothing else of the object and nothing of a call changes.
C20_SettersFrame ==
    [][(pc = "config" /\ pc' = "config"
                      /\ lastCall'.op \notin {"none", "FileExistsInDir"}) =>
          /\ UNCHANGED <<kind, cwd, walk, load, hist>>
          /\ lastCall'.op = "WithDepth" =>
               UNCHANGED <<rootCb, rootDir, rootFiles, err, envSuffix>>
          /\ lastCall'.op = "WithRootDir" =>
               UNCHANGED <<lookupDepth, rootCb, rootFiles, envSuffix>>
          /\ lastCall'.op = "WithRootFiles" =>
               UNCHANGED <<lookupDepth, rootCb, rootDir, err, envSuffix>>
          /\ lastCall'.op = "WithRootCallback" =>
               UNCHANGED <<lookupDepth, rootDir, rootFiles, err, envSuffix>>
          /\ lastCall'.op \in {"WithEnvSuffix", "WithEnvVarName"} =>
               UNCHANGED <<lookupDepth, rootCb, rootDir, rootFiles, err>>]_vars

\* C20, its case: after other setters had set their fields WithEnvVarName
\* read "test" from the environment, and the other fields are as they were
\* set.
C20_Witness ==
    /\ lastCall.op = "WithEnvVarName"
    /\ envSuffix = <<"test">>
    /\ lookupDepth = 2
    /\ rootCb = "fn"
    /\ rootDir = ChainDir(1)
    /\ rootFiles = <<DotGit, GoMod>>

\* C21: WithEnvVarName sets the suffix to the value of the variable when
\* os.LookupEnv reports it as present, also when that value is the empty
\* string and a suffix was set before, and leaves the suffix as it was when
\* the variable is absent.
C21_WithEnvVarName ==
    [][lastCall'.op = "WithEnvVarName" =>
          /\ lastCall'.was = envSuffix
          /\ lastCall'.looked.ok => envSuffix' = lastCall'.looked.v
          /\ ~lastCall'.looked.ok => envSuffix' = envSuffix]_vars

\* C21, its case: the suffix was "test", the variable is present with the
\* empty value, and the suffix is empty now.
C21_Witness ==
    /\ lastCall.op = "WithEnvVarName"
    /\ lastCall.was = <<"test">>
    /\ lastCall.looked = [v |-> <<>>, ok |-> TRUE]
    /\ envSuffix = <<>>

\* the candidate order the claim names: suffixed-local, local, suffixed,
\* plain
C22_Order ==
    IF envSuffix = <<>> THEN << <<".env", ".", "local">>, <<".env">> >>
    ELSE << <<".env", ".">> \o envSuffix \o <<".", "local">>,
            <<".env", ".", "local">>,
            <<".env", ".">> \o envSuffix,
            <<".env">> >>

\* the places in the candidate order of the discovered files that define k
C22_Defining(k) ==
    {i \in 1..Len(C22_Order) :
        \E p \in DOMAIN content : Base(p) = C22_Order[i] /\ k \in content[p]}

\* C22: after a Load that returned nil, a key that was set in the process
\* environment before the call has the value it had; a key that was not
\* set has the value of the discovered file that defines it and comes first
\* in candidate order, and is not set when no discovered file defines it; a
\* key .env.local defines never has the value of .env.
C22_FirstWriterWins ==
    (kind = "Loader" /\ pc = "done" /\ loadErr = NoErr) =>
        \A k \in Keys :
            /\ environ0[k].ok => environ[k] = environ0[k]
            /\ ~environ0[k].ok =>
                 IF C22_Defining(k) = {} THEN environ[k] = Unset
                 ELSE /\ environ[k].ok
                      /\ environ[k].v \in DOMAIN content
                      /\ \E i \in C22_Defining(k) :
                           /\ \A j \in C22_Defining(k) : i <= j
                           /\ Base(environ[k].v) = C22_Order[i]
            /\ (\E p \in DOMAIN content :
                    Base(p) = <<".env", ".", "local">> /\ k \in content[p])
                 => ~(environ[k].ok /\ Base(environ[k].v) = <<".env">>)

\* C22, its case: four files were discovered in a parent directory, the
\* first does not define the key, the others do, and the key has the value
\* of .env.local.
C22_Witness ==
    /\ kind = "Loader"
    /\ pc = "done"
    /\ loadErr = NoErr
    /\ foundDir # <<>>
    /\ Len(applied) = 4
    /\ "A" \notin content[applied[1]]
    /\ "A" \in content[applied[2]] \cap content[applied[4]]
    /\ ~environ0["A"].ok
    /\ environ["A"] = [v |-> Join(foundDir, <<".env", ".", "local">>), ok |-> TRUE]

\* the walk has met a stop condition other than the depth limit: it is in
\* the root directory, the callback said stop, or a root marker exists
C23_OtherStop ==
    \E d \in visited :
        \/ d = rootDir
        \/ <<d, "stop">> \in cbCalls
        \/ \E m \in Range(rootFiles) : <<d, m>> \in markerProbes /\ m \in fs[d]

\* C23: with a depth limit <= 0 checkLookupDepth returns the current depth
\* as it is, never -1, so the depth stays 0 and a walk that ends without a
\* candidate and without an error has met another stop condition; with a
\* limit n > 0 it returns -1 exactly when the current depth plus one is n
\* and the current depth plus one otherwise, and the walk that got -1 has
\* returned not found.
C23_DepthCheck ==
    /\ lastCall.op = "checkLookupDepth" =>
         /\ lookupDepth <= 0 => lastCall.got = lastCall.cur
         /\ lookupDepth > 0 =>
              /\ lastCall.got = -1 <=> lastCall.cur + 1 = lookupDepth
              /\ lastCall.got # -1 => lastCall.got = lastCall.cur + 1
    /\ lookupDepth <= 0 =>
         /\ depth = 0
         /\ (Returned /\ ~foundAny /\ ret.err = NoErr) => C23_OtherStop
    /\ lookupDepth > 0 =>
         /\ depth \in -1..(lookupDepth - 1)
         /\ depth = -1 =>
              /\ Returned
              /\ ret = NilRet
              /\ Cardinality({e \in stopEvals : e[1] = "depth"}) <= lookupDepth

\* C23, its case: the limit is negative, checkLookupDepth was asked for a
\* current depth above 0 and returned it.
C23_Witness ==
    /\ lookupDepth < 0
    /\ lastCall.op = "checkLookupDepth"
    /\ lastCall.cur > 0
    /\ lastCall.got = lastCall.cur

\* the resolution of the parent directory has failed: the working
\* directory query, the callback, or the status check of a marker
C24_GetwdFailed == "getwd" \in fault
C24_CallbackFailed == \E c \in cbCalls : c[2] = "fail"
C24_MarkerFailed == \E p \in markerProbes : p \notin known
C24_ParentFailed == C24_GetwdFailed \/ C24_CallbackFailed \/ C24_MarkerFailed

\* the directory whose parent was being resolved
C24_Dir == IF absDir = <<>> THEN cwd ELSE absDir

\* C24: when the working-directory query, the stop callback or the status
\* check of a marker fails, Lookup has returned: a nil list and an error
\* that wraps the cause, with the context of nextParentDir (for the
\* callback, the path it was called with); no directory was found, nothing
\* above the directory is entered or probed, and from then on no directory
\* is probed and no callback is called in this call.
C24_ParentFailureEnds ==
    /\ [](C24_ParentFailed =>
            /\ Returned
            /\ ~foundAny
            /\ ret.nil
            /\ ret.list = <<>>
            /\ ret.err # NoErr
            /\ Cause(ret.err) = (IF C24_GetwdFailed THEN "getwd"
                                 ELSE IF C24_CallbackFailed THEN "callback"
                                 ELSE "ErrInvalid")
            /\ \E i \in 1..Len(ret.err) : ret.err[i][1] = "next parent dir of"
            /\ C24_GetwdFailed => (cbCalls = {} /\ markerProbes = {})
            /\ C24_CallbackFailed =>
                 /\ <<C24_Dir, "fail">> \in cbCalls
                 /\ \E i \in 1..Len(ret.err) : ret.err[i][2] = <<C24_Dir>>
            /\ C24_MarkerFailed =>
                 \E p \in markerProbes : p \notin known /\ p[1] = C24_Dir
            /\ visited \cap Ancestors(C24_Dir) = {}
            /\ ProbedDirs \cap Ancestors(C24_Dir) = {}
            /\ CalledFor \cap Ancestors(C24_Dir) = {})
    /\ [][(C24_ParentFailed /\ pc' # "config") =>
            UNCHANGED <<ret, visited, candProbes, markerProbes, reProbes,
                        statCalls, cbCalls, stopEvals, gone>>]_vars

\* C24, its case: the callback let the walk go up from the starting
\* directory and failed for its parent.
C24_Witness ==
    /\ Returned
    /\ cwd # Separator
    /\ <<cwd, "continue">> \in cbCalls
    /\ <<Dir(cwd), "fail">> \in cbCalls
    /\ Cause(ret.err) = "callback"

\* C25: whenever lookupDir found a directory and the collecting pass raised
\* no error, the list Lookup returns holds at least one file, whatever the
\* status check answers, also when it answers differently for a path it
\* was asked about before.
C25_NeverEmpty ==
    (Returned /\ foundAny /\ ret.err = NoErr) =>
        (~ret.nil /\ Len(ret.list) >= 1)

\* the directories for which a stop condition was evaluated: the depth, the
\* callback, the root directory or a marker
C26_Evaluated ==
    {e[2] : e \in stopEvals} \cup CalledFor \cup {p[1] : p \in markerProbes}

\* C26: a stop condition is evaluated for a directory only after every
\* candidate was probed there and none exists; so a visited directory that
\* holds a candidate is the winning directory, whether it is the root
\* directory, holds a marker, would be stopped by the callback or lies at
\* the depth limit: none of these was asked about it, and Lookup returns
\* the candidates that exist in it.
C26_StopAfterCandidates ==
    /\ \A d \in C26_Evaluated :
         /\ \A i \in 1..Len(files) : <<d, files[i]>> \in candProbes
         /\ ~HasCandidate(d)
    /\ \A d \in visited : HasCandidate(d) => (foundAny /\ Winning = d)
    /\ foundAny => Winning \notin C26_Evaluated
    /\ (Returned /\ foundAny /\ ret.err = NoErr) =>
         /\ ~ret.nil
         /\ \A i \in 1..Len(ret.list) :
              /\ Base(ret.list[i]) \in fs[Winning]
              /\ Winning # cwd => Dir(ret.list[i]) = Winning
         /\ \A n \in Range(files) :
              InWinning(n) => \E i \in 1..Len(ret.list) : Base(ret.list[i]) = n

\* C26, its case: the winning directory is the root directory and lies at
\* the depth limit 2, a callback and markers are configured, and Lookup
\* returned its files.
C26_Witness ==
    /\ Returned
    /\ foundAny
    /\ Winning = rootDir
    /\ Winning # cwd
    /\ lookupDepth = 2
    /\ Level(Winning) = 2
    /\ rootCb = "fn"
    /\ rootFiles # <<>>
    /\ ~ret.nil
    /\ Len(ret.list) >= 1

\* C27: Lookup leaves the candidate list of its caller as it was: when it
\* has returned, with or without an error, the sequence the caller passed
\* holds the same names in the same order.
C27_CallerListKept == Returned => buf = files

\* C28: an error a WithRootDir has recorded is never cleared, by no setter
\* and not by a WithRootDir that succeeds; every Lookup called with an
\* error recorded returns it with a nil list and has not walked, and Load
\* returns it without applying a file or running a callback.
C28_ErrorSticks ==
    /\ [][err # NoErr => err' # NoErr]_vars
    /\ []((err # NoErr /\ pc # "config") =>
            /\ Returned
            /\ ret.nil
            /\ ret.err = err
            /\ ~foundAny
            /\ ProbedDirs = {}
            /\ CalledFor = {}
            /\ "getwd" \notin fault
            /\ (kind = "Loader" /\ pc = "done") =>
                 (loadErr = err /\ applied = <<>> /\ cbRun = <<>>))

\* C28, its case: on a Loader with an error recorded a root directory, a
\* depth limit and a callback were set, and Load returned the error.
C28_Witness ==
    /\ kind = "Loader"
    /\ pc = "done"
    /\ err # NoErr
    /\ rootDir = ChainDir(1)
    /\ lookupDepth = 2
    /\ rootCb = "fn"
    /\ loadErr = err

====
